---- MODULE Spec2Model ----
(***************************************************************************)
(* The number-hold lifecycle and balance ledger of the ARGSMS bot:         *)
(* src/database.py (the store functions) and the handlers of src/bot.py    *)
(* that call them.  Every handler opens its own store session              *)
(* (get_db_session) and is a sequence of store statements; a step of the   *)
(* model is the part of a handler up to and including one commit.          *)
(*                                                                         *)
(* Money is counted in whole units, time in whole minutes.                 *)
(***************************************************************************)
EXTENDS Integers, Sequences, FiniteSets, TLC

\* ------------------------------------------------------------ bounds
MaxTx == 3              \* rows of the transactions table
MaxId == 7              \* largest primary key of the phone_numbers table
MaxLogins == 2          \* logins at the upstream site

\* ------------------------------------------------- program constants
GraceMinutes == 5       \* timedelta(minutes=5)
DefaultPrice == 1       \* "return 1.0"
SMS_FETCH_COUNT == 3    \* limit of the available query (100 in the source)
SMS_DISPLAY_COUNT == 2  \* size of a batch (20 in the source)

Users == {"u1", "u2"}
Admin == "adm"
Sessions == {"s1", "s2"}
RangeIds == {"rA", "rB"}     \* the ranges imported before the bot starts
PhoneNumbers == 1 .. 5      \* and their numbers
RangeOf(n) == IF n <= 3 THEN "rA" ELSE "rB"
Amounts == {-1, 0, 2}          \* what an admin may type as an amount or price
Times == {0, 4, 6}          \* the minutes at which something happens
UpstreamResults == {"raise", "none", "empty", "found"}

NULL == {}                  \* a nullable column holds {} or {value}
NoRange == "-"
NoUser == "-"
NoAction == "-"
\* context.user_data after clear(), and before any prompt
EmptyUserData == [admin_action |-> NoAction, target |-> NoUser]
\* what the admin-panel message shows, as far as the prompts go
OtherPanel == "-"
\* the upstream site has no session for the bot, a live one, or an expired one
UpstreamSessions == {"none", "live", "expired"}

VARIABLES
    now,            \* datetime.utcnow(), in minutes
    users,          \* users table: balance, total_spent, total_sms_received
    transactions,   \* transactions table, in primary-key order
    holds,          \* number_holds table: its rows without the id column
    price_ranges,   \* price_ranges table: rows [range_unique_id, price]
    ranges,         \* ranges table: rows [unique_id, name]
    phone_numbers,  \* phone_numbers table: rows [id, number, range_id]
    sess,           \* the store session and locals of each handler in flight
    scrapper,       \* _scrapper_session, its cookie file and the upstream site
    user_data,      \* context.user_data of the admin's chat
    panel           \* the admin-panel message that the callbacks edit in place

vars == <<now, users, transactions, holds, price_ranges, ranges,
         phone_numbers, sess, scrapper, user_data, panel>>

\* ------------------------------------------------------------ helpers
Max(S) == IF S = {} THEN 0 ELSE CHOOSE x \in S : \A y \in S : y <= x

RECURSIVE SumAmounts(_)
SumAmounts(txs) ==
    IF txs = <<>> THEN 0 ELSE Head(txs).amount + SumAmounts(Tail(txs))

TxOf(u) == SelectSeq(transactions, LAMBDA t : t.user = u)

\* Query.first(): the row with the lowest primary key among the matches.
\* The rows of one user on one number are never equal in every column, and
\* the one inserted first is the one with the earlier hold_start_time or,
\* at equal times, the permanent one.
Older(h, g) ==
    \/ h.hold_start_time < g.hold_start_time
    \/ h.hold_start_time = g.hold_start_time /\ (h.is_permanent \/ ~g.is_permanent)

First(rows) == CHOOSE h \in rows : \A g \in rows : Older(h, g)

\* Query.limit(k) over rows in primary-key order
Limit(S, k) == {n \in S : Cardinality({m \in S : m < n}) < k}

IdleSession ==
    [pc |-> "idle", user |-> NoUser, range |-> NoRange, number |-> 0,
     hid |-> 0, sel |-> {}, target |-> NoUser, amount |-> 0, bal |-> 0,
     spent |-> 0, data |-> "-", cleaned |-> NULL, file |-> <<>>,
     success_count |-> 0, error_count |-> 0, out |-> "-"]

\* a handler that has returned: what it was asked and what it answered
Returned(u, r, n, sel, o) ==
    [IdleSession EXCEPT !.pc = "done", !.user = u, !.range = r,
                        !.number = n, !.sel = sel, !.out = o]

\* ------------------------------------------------- src/database.py
\* database.py 455-459: the first 16 hex digits of the md5 of the name, a
\* fixed table here
RangeNames == {"Alpha", "Beta", "Gamma"}

generate_range_unique_id(range_name) ==
    CASE range_name = "Alpha" -> "rA"
      [] range_name = "Beta" -> "rB"
      [] OTHER -> "rC"

\* database.py 568-570, 578: the range found by its unique_id and the
\* phone numbers whose range_id is that range
NumbersOfRange(r) ==
    IF \E x \in ranges : x.unique_id = r
    THEN {x \in phone_numbers : x.range_id = r}
    ELSE {}

\* the rows of the price table for one range
PriceRows(P, r) == {x \in P : x.range_unique_id = r}

\* a resolver that knows the default price only
get_price_for_range_default(P, r) == DefaultPrice

\* database.py 354-362: filter_by(range_unique_id).first(), else 1.0
get_price_for_range(P, r) ==
    IF PriceRows(P, r) # {}
    THEN (CHOOSE x \in PriceRows(P, r) : TRUE).price
    ELSE DefaultPrice

\* an expiry with no grace period
Expired_no_grace(h, t) ==
    /\ ~h.is_permanent
    /\ h.first_retry_time # NULL
    /\ \E f \in h.first_retry_time : f < t

Expired(h, t) ==
    /\ ~h.is_permanent
    /\ h.first_retry_time # NULL
    /\ \E f \in h.first_retry_time : f < t - GraceMinutes

\* a sweep that deletes nothing
cleanup_expired_holds_never(H, t) == H

\* a sweep that goes by the age of the hold, not of its first poll
cleanup_by_hold_start(H, t) ==
    {h \in H : h.is_permanent \/ ~(h.hold_start_time < t - GraceMinutes)}

cleanup_expired_holds(H, t) == {h \in H : ~Expired(h, t)}

\* what the call of cleanup_expired_holds evaluates to: the function ends
\* after db_session.commit() (line 436) with no return statement, so None
cleanup_expired_holds_value(H, t) == NULL

\* an available query that leaves out only the temporary holds
get_available_numbers_for_range_temp(H, r) ==
    LET free == {x \in NumbersOfRange(r) :
                    \A h \in H : h.number = x.number => h.is_permanent}
    IN  {x.number : x \in {y \in free :
            y.id \in Limit({z.id : z \in free}, SMS_FETCH_COUNT)}}

\* database.py 563-582: no range, no numbers; else the rows of the range no
\* hold references, the first SMS_FETCH_COUNT of them in primary-key order
get_available_numbers_for_range(H, r) ==
    LET free == {x \in NumbersOfRange(r) : \A h \in H : h.number # x.number}
    IN  {x.number : x \in {y \in free :
            y.id \in Limit({z.id : z \in free}, SMS_FETCH_COUNT)}}

\* new holds that start their expiry clock at once
NewHolds_polled(u, sel, r, t) ==
    {[user |-> u, number |-> n, range_id |-> r, hold_start_time |-> t,
      first_retry_time |-> {t}, is_permanent |-> FALSE] : n \in sel}

NewHolds(u, sel, r, t) ==
    {[user |-> u, number |-> n, range_id |-> r, hold_start_time |-> t,
      first_retry_time |-> NULL, is_permanent |-> FALSE] : n \in sel}

\* an allocation that forgets to release the previous batch
create_number_holds_keep(H, u, sel, r, t) == H \cup NewHolds(u, sel, r, t)

\* an allocation that releases only the previous holds of the same range
create_number_holds_same_range(H, u, sel, r, t) ==
    LET kept == {h \in H : ~(h.user = u /\ ~h.is_permanent /\ h.range_id = r)}
    IN  kept \cup NewHolds(u, sel, r, t)

\* an allocation that releases every hold of the user, permanent or not
create_number_holds_all(H, u, sel, r, t) ==
    {h \in H : h.user # u} \cup NewHolds(u, sel, r, t)

\* a lookup by number alone
HeldBy_anyone(H, u, n) == {h \in H : h.number = n}

create_number_holds(H, u, sel, r, t) ==
    LET kept == {h \in H : ~(h.user = u /\ ~h.is_permanent)}
    IN  kept \cup NewHolds(u, sel, r, t)

HeldBy(H, u, n) == {h \in H : h.user = u /\ h.number = n}

\* a promotion that forgets to filter on the number
mark_number_permanent_all(H, u, n) ==
    {IF h.user = u THEN [h EXCEPT !.is_permanent = TRUE] ELSE h : h \in H}

mark_number_permanent(H, u, n) ==
    LET m == {h \in HeldBy(H, u, n) : ~h.is_permanent}
    IN  IF m = {} THEN H
        ELSE (H \ {First(m)}) \cup {[First(m) EXCEPT !.is_permanent = TRUE]}

marked(H, u, n) == \E h \in HeldBy(H, u, n) : ~h.is_permanent

\* a first poll that forgets to filter on the number
update_first_retry_time_all(H, u, n, t) ==
    {IF h.user = u /\ h.first_retry_time = NULL
     THEN [h EXCEPT !.first_retry_time = {t}] ELSE h : h \in H}

update_first_retry_time(H, u, n, t) ==
    LET m == HeldBy(H, u, n)
    IN  IF m # {} /\ First(m).first_retry_time = NULL
        THEN (H \ {First(m)}) \cup {[First(m) EXCEPT !.first_retry_time = {t}]}
        ELSE H

\* ------------------------------------------------- import and deletion
\* an import that takes every number for a new one
ExistingNumber_none(N, number) == {}

\* database.py 516: query(PhoneNumber).filter_by(number=number)
ExistingNumber(N, number) == {x \in N : x.number = number}

\* the primary key SQLite gives the next row: one above the largest
NextId(N) == IF N = {} THEN 1 ELSE Max({x.id : x \in N}) + 1

\* database.py 489-534, the loop over the rows <<range name, number>> of the
\* file and the commit: ok and bad are success_count and error_count
RECURSIVE import_csv_data(_, _, _, _, _)
import_csv_data(R, N, rows, ok, bad) ==
    IF rows = <<>>
    THEN [ranges |-> R, phone_numbers |-> N,
          success_count |-> ok, error_count |-> bad]
    ELSE LET range_name == Head(rows)[1]
             number == Head(rows)[2]
             unique_id == generate_range_unique_id(range_name)
             R1 == IF \E x \in R : x.unique_id = unique_id THEN R
                   ELSE R \cup {[unique_id |-> unique_id, name |-> range_name]}
             existing == ExistingNumber(N, number)
             e == CHOOSE x \in existing : \A y \in existing : x.id <= y.id
         IN  IF range_name = "" \/ number = 0     \* an empty cell
             THEN import_csv_data(R, N, Tail(rows), ok, bad + 1)
             ELSE IF existing # {}
             THEN IF e.range_id # unique_id
                  THEN import_csv_data(R1,
                          (N \ {e}) \cup {[e EXCEPT !.range_id = unique_id]},
                          Tail(rows), ok + 1, bad)
                  ELSE import_csv_data(R1, N, Tail(rows), ok, bad)
             ELSE import_csv_data(R1,
                     N \cup {[id |-> NextId(N), number |-> number,
                              range_id |-> unique_id]},
                     Tail(rows), ok + 1, bad)

\* a deletion that leaves the holds of the numbers it deletes
delete_range_and_numbers_keep_holds(R, N, H, r) ==
    [ranges |-> {x \in R : x.unique_id # r},
     phone_numbers |-> {x \in N : x.range_id # r},
     holds |-> H]

\* database.py 585-592 with the cascades of lines 83 and 100: the range, its
\* phone numbers and the holds that reference them
delete_range_and_numbers(R, N, H, r) ==
    [ranges |-> {x \in R : x.unique_id # r},
     phone_numbers |-> {x \in N : x.range_id # r},
     holds |-> {h \in H : \A x \in N : x.range_id = r => h.number # x.number}]

\* a price change that keeps the old row and inserts a new one
set_range_price_insert(P, r, price) ==
    P \cup {[range_unique_id |-> r, price |-> price]}

\* database.py 595-612: update the row found by first(), else insert one
set_range_price(P, r, price) ==
    IF PriceRows(P, r) # {}
    THEN LET x == CHOOSE y \in PriceRows(P, r) : TRUE
         IN  (P \ {x}) \cup {[x EXCEPT !.price = price]}
    ELSE P \cup {[range_unique_id |-> r, price |-> price]}

\* a credit that writes no ledger row
add_user_balance_unlogged(U, T, u, bal, amount, type, n) ==
    [users |-> [U EXCEPT ![u].balance = bal + amount], transactions |-> T]

add_user_balance(U, T, u, bal, amount, type, n) ==
    [users |-> [U EXCEPT ![u].balance = bal + amount],
     transactions |-> Append(T, [user |-> u, amount |-> amount,
                                 type |-> type, number |-> n])]

\* a debit that writes no ledger row
deduct_user_balance_unlogged(U, T, u, bal, spent, amount, type, n) ==
    [users |-> [U EXCEPT ![u].balance = bal - amount,
                         ![u].total_spent = spent + amount],
     transactions |-> T]

\* a debit that forgets the running total
deduct_user_balance_no_spent(U, T, u, bal, spent, amount, type, n) ==
    [users |-> [U EXCEPT ![u].balance = bal - amount],
     transactions |-> Append(T, [user |-> u, amount |-> 0 - amount,
                                 type |-> type, number |-> n])]

deduct_user_balance(U, T, u, bal, spent, amount, type, n) ==
    [users |-> [U EXCEPT ![u].balance = bal - amount,
                         ![u].total_spent = spent + amount],
     transactions |-> Append(T, [user |-> u, amount |-> 0 - amount,
                                 type |-> type, number |-> n])]

\* a debit that lets the balance go one below zero
CanDeduct_overdraft(bal, amount) == ~(bal + 1 < amount)

\* a debit that never refuses
CanDeduct_always(bal, amount) == TRUE

\* deduct_user_balance lines 339-340: "if user.balance < amount: return None"
CanDeduct(bal, amount) == ~(bal < amount)

\* a confirmation that takes every hold for a temporary one
was_temporary_always(h) == TRUE

\* bot.py line 1973: "was_temporary = not held_number.is_permanent"
was_temporary(h) == ~h.is_permanent

\* random.sample(available, k): any k of them
Samples(avail, k) == {S \in SUBSET avail : Cardinality(S) = k}

TypeOK ==
    /\ now \in Times
    /\ users \in [Users -> [balance : Int, total_spent : Nat,
                            total_sms_received : Nat]]
    /\ Len(transactions) <= MaxTx
    /\ \A h \in holds : h.user \in Users /\ h.number \in Nat
    /\ \A x \in ranges : x.name \in RangeNames
    /\ \A x \in phone_numbers : x.id \in Nat /\ x.number \in Nat
    /\ \A x \in price_ranges : x.range_unique_id \in RangeIds /\ x.price > 0
    /\ \A s \in Sessions : sess[s].pc \in
           {"idle", "hold", "fetch", "debit", "promote", "credit", "deduct",
            "done"}
    /\ \A s \in Sessions : sess[s].data \in UpstreamResults \cup {"-"}
    /\ \A s \in Sessions : /\ sess[s].success_count \in Nat
                           /\ sess[s].error_count \in Nat
                           /\ sess[s].success_count + sess[s].error_count
                                 <= Len(sess[s].file)
    /\ \A s \in Sessions : /\ sess[s].cleaned \subseteq Nat
                           /\ Cardinality(sess[s].cleaned) <= 1
    /\ scrapper \in [authenticated : BOOLEAN, cookies : BOOLEAN,
                      upstream : UpstreamSessions, logins : 0 .. MaxLogins]
    /\ user_data \in [admin_action : {NoAction, "add_balance",
                                       "deduct_balance"},
                       target : Users \cup {NoUser}]
    /\ panel \in {OtherPanel, "ManageBalance", "AmountPrompt"}

Init ==
    /\ now = 0
    /\ users = [u \in Users |-> [balance |-> 0, total_spent |-> 0,
                                 total_sms_received |-> 0]]
    /\ transactions = <<>>
    /\ holds = {}
    /\ price_ranges = {}
    /\ ranges = {[unique_id |-> generate_range_unique_id(nm), name |-> nm] :
                    nm \in {"Alpha", "Beta"}}
    /\ phone_numbers = {[id |-> n, number |-> n, range_id |-> RangeOf(n)] :
                           n \in PhoneNumbers}
    /\ sess = [s \in Sessions |-> IdleSession]
    /\ scrapper = [authenticated |-> FALSE, cookies |-> FALSE,
                   upstream |-> "none", logins |-> 0]
    /\ user_data = EmptyUserData
    /\ panel = OtherPanel

\* ------------------------------------------- view_sms_numbers_callback
\* the inventory checks before the balance check
AllocOutcome_inventory_first(bal, price, avail) ==
    IF avail = {} THEN "NoAvailable"
    ELSE IF Cardinality(avail) < SMS_DISPLAY_COUNT THEN "NotEnough"
    ELSE IF bal < price THEN "InsufficientBalance"
    ELSE "ok"

\* the order of the checks of lines 567-609
AllocOutcome(bal, price, avail) ==
    IF bal < price THEN "InsufficientBalance"
    ELSE IF avail = {} THEN "NoAvailable"
    ELSE IF Cardinality(avail) < SMS_DISPLAY_COUNT THEN "NotEnough"
    ELSE "ok"

\* an allocation that discards the caller's temporary holds before it
\* counts the available numbers
view_sms_numbers_check_discard_first(s, u, r) ==
    /\ sess[s].pc = "idle"
    /\ LET H1 == cleanup_expired_holds(holds, now)
           price == get_price_for_range(price_ranges, r)
           avail == get_available_numbers_for_range(
                       {h \in H1 : h.user # u \/ h.is_permanent}, r)
           o == AllocOutcome(users[u].balance, price, avail)
       IN  /\ holds' = H1
           /\ IF o = "ok"
              THEN \E sel \in Samples(avail, SMS_DISPLAY_COUNT) :
                     sess' = [sess EXCEPT ![s] =
                        [IdleSession EXCEPT !.pc = "hold", !.user = u,
                                            !.range = r, !.sel = sel,
                                            !.amount = price]]
              ELSE sess' = [sess EXCEPT ![s] = Returned(u, r, 0, {}, o)]
    /\ UNCHANGED <<now, users, transactions, price_ranges,
                 ranges, phone_numbers, scrapper, user_data, panel>>

\* lines 554-612: sweep, price and balance check, available query, sample
view_sms_numbers_check(s, u, r) ==
    /\ sess[s].pc = "idle"
    /\ LET H1 == cleanup_expired_holds(holds, now)
           price == get_price_for_range(price_ranges, r)
           avail == get_available_numbers_for_range(H1, r)
           o == AllocOutcome(users[u].balance, price, avail)
       IN  /\ holds' = H1
           /\ IF o = "ok"
              THEN \E sel \in Samples(avail, SMS_DISPLAY_COUNT) :
                     sess' = [sess EXCEPT ![s] =
                        [IdleSession EXCEPT !.pc = "hold", !.user = u,
                                            !.range = r, !.sel = sel,
                                            !.amount = price]]
              ELSE sess' = [sess EXCEPT ![s] = Returned(u, r, 0, {}, o)]
    /\ UNCHANGED <<now, users, transactions, price_ranges,
                 ranges, phone_numbers, scrapper, user_data, panel>>

\* lines 614-616: create_number_holds, one commit
view_sms_numbers_hold(s) ==
    /\ sess[s].pc = "hold"
    /\ LET u == sess[s].user
           H1 == create_number_holds(holds, u, sess[s].sel, sess[s].range, now)
       IN  /\ holds' = H1
           /\ sess' = [sess EXCEPT ![s] =
                  Returned(u, sess[s].range, 0, sess[s].sel, "Allocated")]
    /\ UNCHANGED <<now, users, transactions, price_ranges,
                 ranges, phone_numbers, scrapper, user_data, panel>>

\* ------------------- search_sms_callback, retry_sms_callback,
\* ------------------- handle_phone_search (the same steps in each)
\* a search that sweeps the expired holds before it looks for the hold
search_sms_begin_sweeping(s, u, n) ==
    /\ sess[s].pc = "idle"
    /\ LET H1 == cleanup_expired_holds(holds, now)
           m == HeldBy(H1, u, n)
       IN  IF m = {}
           THEN /\ sess' = [sess EXCEPT ![s] =
                       Returned(u, NoRange, n, {}, "NotHeld")]
                /\ holds' = H1
           ELSE /\ holds' = IF First(m).first_retry_time = NULL
                            THEN update_first_retry_time(H1, u, n, now)
                            ELSE H1
                /\ sess' = [sess EXCEPT ![s] =
                       [IdleSession EXCEPT !.pc = "fetch", !.user = u,
                                           !.number = n,
                                           !.hid = First(m).hold_start_time]]
    /\ UNCHANGED <<now, users, transactions, price_ranges,
                 ranges, phone_numbers, scrapper, user_data, panel>>

\* lines 1895-1910: the holder check and the first poll
search_sms_begin(s, u, n) ==
    /\ sess[s].pc = "idle"
    /\ LET m == HeldBy(holds, u, n)
       IN  IF m = {}
           THEN /\ sess' = [sess EXCEPT ![s] =
                       Returned(u, NoRange, n, {}, "NotHeld")]
                /\ UNCHANGED holds
           ELSE /\ holds' = IF First(m).first_retry_time = NULL
                            THEN update_first_retry_time(holds, u, n, now)
                            ELSE holds
                /\ sess' = [sess EXCEPT ![s] =
                       [IdleSession EXCEPT !.pc = "fetch", !.user = u,
                                           !.number = n,
                                           !.hid = First(m).hold_start_time]]
    /\ UNCHANGED <<now, users, transactions, price_ranges,
                 ranges, phone_numbers, scrapper, user_data, panel>>

\* a search that takes any upstream answer for an SMS
HasMessages_any(res) == TRUE

\* bot.py lines 1924 and 1953: "if not data: ... return" and
\* "if not actual_messages: ... return"; a raise goes to the except branch
HasMessages(res) == res = "found"

\* what the handler answers when no charge is due
FetchOutcome(res) ==
    CASE res = "raise" -> "Error"
      [] res = "none" -> "Failed"
      [] res = "empty" -> "NoSMS"
      [] OTHER -> "Shown"

\* lines 1918-1991: the upstream call, then was_temporary, the price and the
\* balance test of deduct_user_balance, each re-read from the store
search_sms_fetch(s, res) ==
    /\ sess[s].pc = "fetch"
    /\ LET u == sess[s].user
           n == sess[s].number
           row == {x \in HeldBy(holds, u, n) :
                      x.hold_start_time = sess[s].hid}
           h == First(row)
           price == get_price_for_range(price_ranges, h.range_id)
           nxt == IF ~HasMessages(res)
                  THEN Returned(u, NoRange, n, {}, FetchOutcome(res))
                  ELSE IF row = {}
                  THEN Returned(u, NoRange, n, {}, "Error")
                  ELSE IF ~was_temporary(h)
                  THEN Returned(u, h.range_id, n, {}, FetchOutcome(res))
                  ELSE IF ~CanDeduct(users[u].balance, price)
                  THEN Returned(u, h.range_id, n, {}, "InsufficientFunds")
                  ELSE [IdleSession EXCEPT !.pc = "debit", !.user = u,
                           !.number = n, !.hid = sess[s].hid,
                           !.range = h.range_id, !.amount = price,
                           !.bal = users[u].balance,
                           !.spent = users[u].total_spent]
       IN  sess' = [sess EXCEPT ![s] = [nxt EXCEPT !.data = res]]
    /\ UNCHANGED <<now, users, transactions, holds, price_ranges,
                 ranges, phone_numbers, scrapper, user_data, panel>>

\* deduct_user_balance lines 341-351: the commit of the debit
search_sms_debit(s) ==
    /\ sess[s].pc = "debit"
    /\ Len(transactions) < MaxTx
    /\ LET d == deduct_user_balance(users, transactions, sess[s].user,
                    sess[s].bal, sess[s].spent, sess[s].amount,
                    "sms_charge", sess[s].number)
       IN  /\ users' = d.users
           /\ transactions' = d.transactions
    /\ sess' = [sess EXCEPT ![s].pc = "promote"]
    /\ UNCHANGED <<now, holds, price_ranges,
                 ranges, phone_numbers, scrapper, user_data, panel>>

\* mark_number_permanent, a second commit
search_sms_promote(s) ==
    /\ sess[s].pc = "promote"
    /\ LET u == sess[s].user
           n == sess[s].number
       IN  /\ holds' = mark_number_permanent(holds, u, n)
           /\ users' = IF marked(holds, u, n)
                       THEN [users EXCEPT ![u].total_sms_received = @ + 1]
                       ELSE users
           /\ sess' = [sess EXCEPT ![s] =
                  Returned(u, sess[s].range, n, {}, "Charged")]
    /\ UNCHANGED <<now, transactions, price_ranges,
                 ranges, phone_numbers, scrapper, user_data, panel>>

\* the "finally: db.close()" of every handler
db_close(s) ==
    /\ sess[s].pc = "done"
    /\ sess' = [sess EXCEPT ![s] = IdleSession]
    /\ UNCHANGED <<now, users, transactions, holds, price_ranges,
                 ranges, phone_numbers, scrapper, user_data, panel>>

\* --------------------------------------------------- admin handlers
\* bot.py 1003-1017
admin_cleanup_holds_callback(s) ==
    /\ sess[s].pc = "idle"
    /\ holds' = cleanup_expired_holds(holds, now)
    /\ sess' = [sess EXCEPT ![s] =
          [Returned(Admin, NoRange, 0, {}, "Cleaned")
              EXCEPT !.cleaned = cleanup_expired_holds_value(holds, now)]]
    /\ panel' = OtherPanel
    /\ UNCHANGED <<now, users, transactions, price_ranges,
                 ranges, phone_numbers, scrapper, user_data>>

\* a release that turns every hold temporary instead of deleting the
\* temporary ones
admin_release_all_holds_demote(s) ==
    /\ sess[s].pc = "idle"
    /\ holds' = {[h EXCEPT !.is_permanent = FALSE] : h \in holds}
    /\ sess' = [sess EXCEPT ![s] = Returned(Admin, NoRange, 0, {}, "Released")]
    /\ panel' = OtherPanel
    /\ UNCHANGED <<now, users, transactions, price_ranges,
                 ranges, phone_numbers, scrapper, user_data>>

\* a release that keeps to the grace period, as the sweep does
admin_release_all_holds_graced(s) ==
    /\ sess[s].pc = "idle"
    /\ holds' = cleanup_expired_holds(holds, now)
    /\ sess' = [sess EXCEPT ![s] = Returned(Admin, NoRange, 0, {}, "Released")]
    /\ panel' = OtherPanel
    /\ UNCHANGED <<now, users, transactions, price_ranges,
                 ranges, phone_numbers, scrapper, user_data>>

\* bot.py 1020-1042
admin_release_all_holds_callback(s) ==
    /\ sess[s].pc = "idle"
    /\ holds' = {h \in holds : h.is_permanent}
    /\ sess' = [sess EXCEPT ![s] = Returned(Admin, NoRange, 0, {}, "Released")]
    /\ panel' = OtherPanel
    /\ UNCHANGED <<now, users, transactions, price_ranges,
                 ranges, phone_numbers, scrapper, user_data>>

\* an amount prompt that takes any number
PositiveAmount_any(amt) == TRUE

\* bot.py lines 2399-2401, 2437-2439, 2587-2589 (and 2287, 2352 in the
\* by-id variants): "if amount <= 0: reply 'must be positive'; return"
PositiveAmount(amt) == ~(amt <= 0)

\* handle_message -> handle_admin_input with the amount typed.  kind and
\* target are context.user_data['admin_action'] and the user or range the
\* prompt callback stored with it (add_balance_prompt_callback,
\* deduct_balance_prompt_callback, admin_set_range_price_callback).
\* The branches 'add_balance', 'deduct_balance' and 'set_range_price', each
\* up to its commit.
handle_admin_input(s, kind, t, amt) ==
    /\ sess[s].pc = "idle"
    /\ LET reply(o) == [sess EXCEPT ![s] = Returned(Admin, NoRange, 0, {}, o)]
       IN  IF ~PositiveAmount(amt)
           THEN /\ sess' = reply("MustBePositive")
                /\ UNCHANGED <<price_ranges, user_data>>
           ELSE IF kind = "set_range_price"
           THEN /\ price_ranges' = set_range_price(price_ranges, t, amt)
                /\ sess' = [sess EXCEPT ![s] =
                      [Returned(Admin, t, 0, {}, "PriceSet")
                          EXCEPT !.amount = amt]]
                /\ user_data' = EmptyUserData
           ELSE IF kind = "deduct_balance" /\ users[t].balance < amt
           THEN /\ sess' = reply("InsufficientFunds")
                /\ price_ranges' = price_ranges
                /\ user_data' = EmptyUserData
           ELSE /\ sess' = [sess EXCEPT ![s] =
                      [IdleSession EXCEPT
                          !.pc = IF kind = "add_balance"
                                 THEN "credit" ELSE "deduct",
                          !.user = Admin, !.target = t, !.amount = amt,
                          !.bal = users[t].balance,
                          !.spent = users[t].total_spent]]
                /\ UNCHANGED <<price_ranges, user_data>>
    /\ UNCHANGED <<now, users, transactions, holds,
                 ranges, phone_numbers, scrapper, panel>>

\* add_user_balance lines 325-333
handle_admin_input_add(s) ==
    /\ sess[s].pc = "credit"
    /\ Len(transactions) < MaxTx
    /\ LET d == add_user_balance(users, transactions, sess[s].target,
                    sess[s].bal, sess[s].amount, "admin_add", 0)
       IN  /\ users' = d.users
           /\ transactions' = d.transactions
    /\ sess' = [sess EXCEPT ![s] = Returned(Admin, NoRange, 0, {}, "Added")]
    /\ user_data' = EmptyUserData
    /\ UNCHANGED <<now, holds, price_ranges,
                 ranges, phone_numbers, scrapper, panel>>

\* deduct_user_balance lines 341-351
handle_admin_input_deduct(s) ==
    /\ sess[s].pc = "deduct"
    /\ Len(transactions) < MaxTx
    /\ LET d == deduct_user_balance(users, transactions, sess[s].target,
                    sess[s].bal, sess[s].spent, sess[s].amount,
                    "admin_deduct", 0)
       IN  /\ users' = d.users
           /\ transactions' = d.transactions
    /\ sess' = [sess EXCEPT ![s] = Returned(Admin, NoRange, 0, {}, "Deducted")]
    /\ user_data' = EmptyUserData
    /\ UNCHANGED <<now, holds, price_ranges,
                 ranges, phone_numbers, scrapper, panel>>

\* bot.py 2616-2693: the admin uploads a CSV file
handle_document(s, rows) ==
    /\ sess[s].pc = "idle"
    /\ LET d == import_csv_data(ranges, phone_numbers, rows, 0, 0)
       IN  /\ \A x \in d.phone_numbers : x.id <= MaxId
           /\ ranges' = d.ranges
           /\ phone_numbers' = d.phone_numbers
           /\ sess' = [sess EXCEPT ![s] =
                  [Returned(Admin, NoRange, 0, {}, "Imported")
                      EXCEPT !.file = rows,
                             !.success_count = d.success_count,
                             !.error_count = d.error_count]]
    /\ user_data' = EmptyUserData
    /\ UNCHANGED <<now, users, transactions, holds, price_ranges, scrapper,
                 panel>>

\* bot.py 2806-2831
admin_delete_range_callback(s, r) ==
    /\ sess[s].pc = "idle"
    /\ IF \E x \in ranges : x.unique_id = r
       THEN LET d == delete_range_and_numbers(ranges, phone_numbers, holds, r)
            IN  /\ ranges' = d.ranges
                /\ phone_numbers' = d.phone_numbers
                /\ holds' = d.holds
                /\ sess' = [sess EXCEPT ![s] =
                       Returned(Admin, r, 0, {}, "RangeDeleted")]
                /\ panel' = OtherPanel
       ELSE /\ sess' = [sess EXCEPT ![s] =
                   Returned(Admin, r, 0, {}, "RangeNotFound")]
            /\ UNCHANGED <<ranges, phone_numbers, holds, panel>>
    /\ UNCHANGED <<now, users, transactions, price_ranges, scrapper,
                 user_data>>

\* ------------------------------------------- src/scrapper_wrapper.py
\* what scrapper.get_sms_ranges and scrapper.get_sms_numbers (scrapper.py
\* 287-345, 348-424) can do with the session they are given.  They catch
\* requests.Timeout, HTTPError, RequestException and json.JSONDecodeError
\* and return None.  A live session gives the data or, on a network error,
\* None; an expired one is answered with the login page, whose parse error
\* is caught ("none") unless the build's decoder raises an error that is
\* none of the four ("raise").
get_sms_ranges(upstream) ==
    IF upstream = "live" THEN {"data", "none"} ELSE {"none", "raise"}

\* ScrapperSession.ensure_authenticated lines 35-63; ok: login() succeeds
ensure_authenticated(S, ok) ==
    IF S.authenticated
    THEN [scrapper |-> S, value |-> TRUE]
    ELSE IF S.cookies /\ S.upstream = "live"
    THEN [scrapper |-> [S EXCEPT !.authenticated = TRUE], value |-> TRUE]
    ELSE IF ok
    THEN [scrapper |-> [S EXCEPT !.authenticated = TRUE, !.cookies = TRUE,
                                 !.upstream = "live", !.logins = @ + 1],
          value |-> TRUE]
    ELSE [scrapper |-> [S EXCEPT !.logins = @ + 1], value |-> FALSE]

\* ScrapperSession.get_sms_ranges lines 71-83 (get_sms_numbers, 85-97, is
\* the same): res is what the module function does
ScrapperSession_get_sms_ranges(S, ok, res) ==
    LET a == ensure_authenticated(S, ok)
    IN  IF ~a.value
        THEN [scrapper |-> a.scrapper, data |-> "none"]
        ELSE IF res = "raise"
        THEN [scrapper |-> [a.scrapper EXCEPT !.authenticated = FALSE],
              data |-> "none"]
        ELSE [scrapper |-> a.scrapper, data |-> res]

\* bot.py 1461-1490: the admin asks for the ranges of the upstream site
select_range_for_price_callback(s, ok, res) ==
    /\ sess[s].pc = "idle"
    /\ scrapper.logins < MaxLogins
    /\ res \in get_sms_ranges(ensure_authenticated(scrapper, ok).scrapper.upstream)
    /\ LET d == ScrapperSession_get_sms_ranges(scrapper, ok, res)
       IN  /\ scrapper' = d.scrapper
           /\ sess' = [sess EXCEPT ![s] =
                  Returned(Admin, NoRange, 0, {},
                           IF d.data = "data" THEN "Ranges"
                                              ELSE "FetchFailed")]
    /\ panel' = OtherPanel
    /\ UNCHANGED <<now, users, transactions, holds, price_ranges, ranges,
                 phone_numbers, user_data>>

\* the upstream site ends the session it gave the bot
Expire ==
    /\ scrapper.upstream = "live"
    /\ scrapper' = [scrapper EXCEPT !.upstream = "expired"]
    /\ UNCHANGED <<now, users, transactions, holds, price_ranges, ranges,
                 phone_numbers, sess, user_data, panel>>

\* the bot is started again: get_scrapper_session (lines 104-109) makes a
\* new ScrapperSession, whose __init__ sets _authenticated = False; the
\* cookie file stays, context.user_data does not
Restart ==
    /\ \A s \in Sessions : sess[s].pc = "idle"
    /\ scrapper.authenticated \/ user_data # EmptyUserData
    /\ scrapper' = [scrapper EXCEPT !.authenticated = FALSE]
    /\ user_data' = EmptyUserData
    /\ UNCHANGED <<now, users, transactions, holds, price_ranges, ranges,
                 phone_numbers, sess, panel>>

\* -------------------------------------------------- the balance prompts
\* bot.py 1279-1304 (kind "add_balance") and 1307-1332 ("deduct_balance"):
\* the admin picks a user in the Manage Balance menu
balance_prompt_callback(s, kind, t) ==
    /\ sess[s].pc = "idle"
    /\ user_data' = [admin_action |-> kind, target |-> t]
    /\ panel' = "AmountPrompt"
    /\ sess' = [sess EXCEPT ![s] = Returned(Admin, NoRange, 0, {}, "Prompt")]
    /\ UNCHANGED <<now, users, transactions, holds, price_ranges, ranges,
                 phone_numbers, scrapper>>

\* bot.py 1247-1276: the Manage Balance menu, which is also where the Cancel
\* button of a prompt leads (callback_data "admin_manage_balance")
admin_manage_balance_callback(s) ==
    /\ sess[s].pc = "idle"
    /\ panel' = "ManageBalance"
    /\ sess' = [sess EXCEPT ![s] = Returned(Admin, NoRange, 0, {}, "Menu")]
    /\ UNCHANGED <<now, users, transactions, holds, price_ranges, ranges,
                 phone_numbers, scrapper, user_data>>

\* bot.py 1628-1657: the admin sends a number as a text message
handle_message(s, amt) ==
    IF user_data.admin_action # NoAction
    THEN handle_admin_input(s, user_data.admin_action, user_data.target, amt)
    ELSE /\ sess[s].pc = "idle"
         /\ sess' = [sess EXCEPT ![s] =
                Returned(Admin, NoRange, 0, {}, "Ignored")]
         /\ UNCHANGED <<now, users, transactions, holds, price_ranges,
                      ranges, phone_numbers, scrapper, user_data, panel>>

\* --------------------------------------------------- environment
\* the clock is read in whole minutes and a handler takes less than one: time
\* passes between handlers
Tick ==
    /\ \A s \in Sessions : sess[s].pc = "idle"
    /\ \E t \in Times : t > now /\ now' = t
    /\ UNCHANGED <<users, transactions, holds, price_ranges, sess,
                 ranges, phone_numbers, scrapper, user_data, panel>>

\* the process dies, or a commit raises, between two commits of a handler
Crash(s) ==
    /\ sess[s].pc \notin {"idle", "done"}
    /\ sess' = [sess EXCEPT ![s] = IdleSession]
    /\ UNCHANGED <<now, users, transactions, holds, price_ranges,
                 ranges, phone_numbers, scrapper, user_data, panel>>

\* ------------------------------------------------ one update at a time
\* Application.run_polling dispatches the updates one after the other: a
\* handler runs to its end before the next one starts.  One caller, every
\* range and number, every admin input.
Caller == "u1"
Worker == "s1"

PromptTargets ==
    ({"add_balance", "deduct_balance"} \X {Caller})
        \cup ({"set_range_price"} \X RangeIds)

NextSeq ==
    \/ \E r \in RangeIds : view_sms_numbers_check(Worker, Caller, r)
    \/ view_sms_numbers_hold(Worker)
    \/ \E n \in PhoneNumbers : search_sms_begin(Worker, Caller, n)
    \/ \E res \in UpstreamResults : search_sms_fetch(Worker, res)
    \/ search_sms_debit(Worker)
    \/ search_sms_promote(Worker)
    \/ admin_cleanup_holds_callback(Worker)
    \/ admin_release_all_holds_callback(Worker)
    \/ \E p \in PromptTargets, amt \in Amounts :
          handle_admin_input(Worker, p[1], p[2], amt)
    \/ handle_admin_input_add(Worker)
    \/ handle_admin_input_deduct(Worker)
    \/ db_close(Worker)
    \/ Tick

SpecSeq == Init /\ [][NextSeq]_vars

\* ------------------------------------------------- concurrent callers
\* Two handlers in flight, interleaved commit by commit, for two users who
\* are credited and then ask for the same range and poll its numbers, all
\* within one minute of the clock.
RaceRange == "rB"
RaceNumbers == {n \in PhoneNumbers : RangeOf(n) = RaceRange}
RaceAmount == Max(Amounts)

Step(s) ==
    \/ \E u \in Users : view_sms_numbers_check(s, u, RaceRange)
    \/ view_sms_numbers_hold(s)
    \/ \E u \in Users, n \in RaceNumbers : search_sms_begin(s, u, n)
    \/ \E res \in UpstreamResults : search_sms_fetch(s, res)
    \/ search_sms_debit(s)
    \/ search_sms_promote(s)
    \/ \E u \in Users : handle_admin_input(s, "add_balance", u, RaceAmount)
    \/ handle_admin_input_add(s)
    \/ db_close(s)

Next ==
    \/ \E s \in Sessions : Step(s)
    \/ \E s \in Sessions : Crash(s)

Spec == Init /\ [][Next]_vars

\* ------------------------------------------- two users, one range
\* One update at a time, two users who are credited, ask for numbers of the
\* same range and poll them, and the admin's release of the temporary holds.
SharedRange == "rA"
SharedNumbers == {n \in PhoneNumbers : RangeOf(n) = SharedRange}

NextShared ==
    \/ \E u \in Users : view_sms_numbers_check(Worker, u, SharedRange)
    \/ view_sms_numbers_hold(Worker)
    \/ \E u \in Users, n \in SharedNumbers : search_sms_begin(Worker, u, n)
    \/ \E res \in UpstreamResults : search_sms_fetch(Worker, res)
    \/ search_sms_debit(Worker)
    \/ search_sms_promote(Worker)
    \/ \E u \in Users : handle_admin_input(Worker, "add_balance", u, RaceAmount)
    \/ handle_admin_input_add(Worker)
    \/ admin_release_all_holds_callback(Worker)
    \/ db_close(Worker)

SpecShared == Init /\ [][NextShared]_vars

\* ---------------------------------- two users, one range, and the clock
\* The same, with time passing between the handlers.
NextTimed ==
    \/ NextShared
    \/ Tick

SpecTimed == Init /\ [][NextTimed]_vars

\* ------------------------------------------------------- the inventory
\* One update at a time: the admin uploads files and deletes ranges, and the
\* caller, once credited, asks for numbers.
ImportNumbers == {3, 6}     \* a number of the first range and a new one
ImportRows == {"", "Alpha", "Gamma"} \X ImportNumbers
ImportFiles ==
    {<<a>> : a \in ImportRows} \cup {<<a, b>> : a \in ImportRows, b \in ImportRows}
AllRangeIds == {generate_range_unique_id(nm) : nm \in RangeNames}

NextInventory ==
    \/ \E rows \in ImportFiles : handle_document(Worker, rows)
    \/ \E r \in AllRangeIds : admin_delete_range_callback(Worker, r)
    \/ handle_admin_input(Worker, "add_balance", Caller, RaceAmount)
    \/ handle_admin_input_add(Worker)
    \/ \E r \in AllRangeIds : view_sms_numbers_check(Worker, Caller, r)
    \/ view_sms_numbers_hold(Worker)
    \/ db_close(Worker)

SpecInventory == Init /\ [][NextInventory]_vars

\* ------------------------------------------ billing and the inventory
\* One update at a time: the caller is credited, asks for numbers of one
\* range and confirms them, and the admin deletes that range and imports it
\* again.
ReimportFiles == {<<<<"Beta", 4>>, <<"Beta", 5>>>>, <<<<"Beta", 4>>>>}

NextDeletion ==
    \/ handle_admin_input(Worker, "add_balance", Caller, RaceAmount)
    \/ handle_admin_input_add(Worker)
    \/ view_sms_numbers_check(Worker, Caller, RaceRange)
    \/ view_sms_numbers_hold(Worker)
    \/ \E n \in RaceNumbers : search_sms_begin(Worker, Caller, n)
    \/ \E res \in UpstreamResults : search_sms_fetch(Worker, res)
    \/ search_sms_debit(Worker)
    \/ search_sms_promote(Worker)
    \/ admin_delete_range_callback(Worker, RaceRange)
    \/ \E rows \in ReimportFiles : handle_document(Worker, rows)
    \/ db_close(Worker)

SpecDeletion == Init /\ [][NextDeletion]_vars

\* ------------------------------------------------------- the price table
\* One update at a time: the admin sets and changes the prices of the ranges
\* and credits the caller, who asks for numbers at the price resolved.
Prices == {-1, 0, 1, 2, 3}  \* what the admin may type at a price prompt

NextPrice ==
    \/ \E r \in RangeIds, amt \in Prices :
          handle_admin_input(Worker, "set_range_price", r, amt)
    \/ \E amt \in Prices :
          handle_admin_input(Worker, "add_balance", Caller, amt)
    \/ handle_admin_input_add(Worker)
    \/ \E r \in RangeIds : view_sms_numbers_check(Worker, Caller, r)
    \/ view_sms_numbers_hold(Worker)
    \/ db_close(Worker)

SpecPrice == Init /\ [][NextPrice]_vars

\* ------------------------------------------------- the upstream session
\* One update at a time: the admin asks for the upstream ranges again and
\* again and sets prices, while the upstream site lets sessions expire and
\* the bot is restarted now and then.
NextScrapper ==
    \/ \E ok \in BOOLEAN, res \in {"data", "none", "raise"} :
          select_range_for_price_callback(Worker, ok, res)
    \/ \E r \in RangeIds, amt \in Amounts :
          handle_admin_input(Worker, "set_range_price", r, amt)
    \/ Expire
    \/ Restart
    \/ db_close(Worker)

\* every handler returns, and the admin never stops asking for the ranges
SpecScrapper ==
    /\ Init /\ [][NextScrapper]_vars
    /\ WF_vars(db_close(Worker))
    /\ SF_vars(\E ok \in BOOLEAN, res \in {"data", "none", "raise"} :
                  select_range_for_price_callback(Worker, ok, res))

\* ------------------------------------------------- the admin's prompts
\* One update at a time: the admin walks through the Manage Balance menu,
\* opens and cancels amount prompts, and types amounts.
NextPrompt ==
    \/ \E kind \in {"add_balance", "deduct_balance"}, t \in Users :
          balance_prompt_callback(Worker, kind, t)
    \/ admin_manage_balance_callback(Worker)
    \/ \E amt \in Amounts : handle_message(Worker, amt)
    \/ handle_admin_input_add(Worker)
    \/ handle_admin_input_deduct(Worker)
    \/ db_close(Worker)

SpecPrompt == Init /\ [][NextPrompt]_vars

\* ===================================================== properties
Charges(u, n) ==
    {i \in 1 .. Len(transactions) :
        /\ transactions[i].type = "sms_charge"
        /\ transactions[i].user = u
        /\ transactions[i].number = n}

TempHolds(u) == {h \in holds : h.user = u /\ ~h.is_permanent}
PermHolds(u) == {h \in holds : h.user = u /\ h.is_permanent}

RECURSIVE Spent(_)
Spent(txs) ==
    IF txs = <<>> THEN 0
    ELSE (IF Head(txs).amount < 0 THEN 0 - Head(txs).amount ELSE 0)
             + Spent(Tail(txs))

\* C1: every phone number is referenced by at most one non-permanent hold,
\* and two allocations in flight at once for two users never both answer
\* with a batch when their batches overlap.
C1_MutualExclusion ==
    /\ \A n \in PhoneNumbers :
          Cardinality({h \in holds : h.number = n /\ ~h.is_permanent}) <= 1
    /\ \A s, t \in Sessions :
          (/\ sess[s].user # sess[t].user
           /\ sess[s].out = "Allocated"
           /\ sess[t].out = "Allocated")
          => sess[s].sel \cap sess[t].sel = {}

\* C2: a number is billed at most once; once a confirmation that found an SMS
\* has answered (it charged, or it showed the SMS of an already permanent
\* hold), there is exactly one sms_charge row for the number, its hold is
\* permanent, and balance, total_spent and total_sms_received are what that
\* single charge made them.
C2_ExactlyOnceBilling ==
    /\ \A u \in Users, n \in PhoneNumbers : Cardinality(Charges(u, n)) <= 1
    /\ \A s \in Sessions :
          (sess[s].pc = "done" /\ sess[s].out \in {"Charged", "Shown"})
          => LET u == sess[s].user
                 n == sess[s].number
             IN  /\ Cardinality(Charges(u, n)) = 1
                 /\ \E h \in PermHolds(u) : h.number = n
                 /\ \A h \in TempHolds(u) : h.number # n
                 /\ users[u].balance = SumAmounts(TxOf(u))
                 /\ users[u].total_spent = Spent(TxOf(u))
                 /\ users[u].total_sms_received = Cardinality(PermHolds(u))

\* the second confirmation of a number has answered: the first one charged it
\* and made it permanent, and this one showed the SMS
C2_Witness ==
    \E s \in Sessions :
        /\ sess[s].pc = "done"
        /\ sess[s].out = "Shown"
        /\ Charges(sess[s].user, sess[s].number) # {}
        /\ users[sess[s].user].total_sms_received = 1

\* C3: every user's balance is the sum of the amounts of the user's
\* transaction rows.
C3_LedgerConsistency ==
    \A u \in Users : users[u].balance = SumAmounts(TxOf(u))

\* a user credited once and charged for two numbers: three rows, balance 0
C3_Witness ==
    \E u \in Users :
        /\ Len(TxOf(u)) = 3
        /\ TxOf(u)[1].type = "admin_add"
        /\ TxOf(u)[2].type = "sms_charge"
        /\ TxOf(u)[3].type = "sms_charge"
        /\ users[u].balance = 0

\* C4: a confirmation whose hold is temporary and whose user has less than
\* the price of the hold's range ends without touching the users, the
\* transactions or the holds, and a hold turns permanent only in the step
\* after the commit of the sms_charge debit for its user and number.
C4_DebitBeforePromote ==
    [][\A s \in Sessions :
        LET u == sess[s].user
            n == sess[s].number
            row == {h \in holds : /\ h.user = u
                                  /\ h.number = n
                                  /\ h.hold_start_time = sess[s].hid}
        IN  /\ (/\ sess[s].pc = "fetch"
                /\ \E h \in row :
                      /\ ~h.is_permanent
                      /\ users[u].balance
                            < get_price_for_range(price_ranges, h.range_id))
               => /\ sess'[s].pc \in {"fetch", "done", "idle"}
                  /\ UNCHANGED <<users, transactions, holds>>
            /\ \A h \in holds' \ holds :
                  (h.is_permanent /\ [h EXCEPT !.is_permanent = FALSE] \in holds)
                  => /\ \E s2 \in Sessions :
                           /\ sess[s2].pc = "promote"
                           /\ sess'[s2].pc = "done"
                           /\ h.user = sess[s2].user
                           /\ h.number = sess[s2].number
                     /\ Charges(h.user, h.number) # {}
                     /\ UNCHANGED transactions
      ]_vars

\* a confirmation found an SMS for a temporary hold of a user who cannot pay:
\* it answered so, and the hold is still temporary and never charged
C4_Witness ==
    \E s \in Sessions :
        /\ sess[s].pc = "done"
        /\ sess[s].out = "InsufficientFunds"
        /\ sess[s].user \in Users
        /\ \E h \in TempHolds(sess[s].user) : h.number = sess[s].number
        /\ Charges(sess[s].user, sess[s].number) = {}

\* C5: the store never holds an sms_charge row for a user and number whose
\* hold is still temporary.
C5_AtomicDebitAndPromote ==
    \A h \in holds : ~h.is_permanent => Charges(h.user, h.number) = {}

\* C6: the commit of an allocation leaves the user with exactly the new
\* batch as temporary holds, all of the range asked for; every temporary
\* hold the user had before is gone in the same step and its number is
\* available in its range again; no other row changes.
C6_ReplaceOnReallocate ==
    [][\A s \in Sessions :
        (sess[s].pc = "hold" /\ sess'[s].pc = "done")
        => LET u == sess[s].user
               old == {h \in holds : h.user = u /\ ~h.is_permanent}
               new == {h \in holds' : h.user = u /\ ~h.is_permanent}
           IN  /\ {h.number : h \in new} = sess[s].sel
               /\ Cardinality(new) = SMS_DISPLAY_COUNT
               /\ \A h \in new : /\ h.range_id = sess[s].range
                                 /\ RangeOf(h.number) = sess[s].range
                                 /\ h.first_retry_time = NULL
               /\ old \cap holds' = {}
               /\ \A h \in old :
                     h.number \in
                        get_available_numbers_for_range(holds', h.range_id)
               /\ holds' \ new = holds \ old
      ]_vars

\* an allocation from rB is about to commit for a user whose temporary holds
\* are a batch from rA, one of its numbers already polled
C6_Witness ==
    \E s \in Sessions :
        /\ sess[s].pc = "hold"
        /\ sess[s].range = "rB"
        /\ Cardinality(TempHolds(sess[s].user)) = SMS_DISPLAY_COUNT
        /\ \A h \in TempHolds(sess[s].user) : h.range_id = "rA"
        /\ \E h \in TempHolds(sess[s].user) : h.first_retry_time # NULL

\* C7: the temporary holds of one user are at most SMS_DISPLAY_COUNT rows
\* and share one range_id.
C7_OneBatchPerUser ==
    \A u \in Users :
        /\ Cardinality(TempHolds(u)) <= SMS_DISPLAY_COUNT
        /\ \A h, g \in TempHolds(u) : h.range_id = g.range_id

\* a user who kept a number of an earlier batch from rA for good now holds a
\* full batch from rB
C7_Witness ==
    \E s \in Sessions :
        /\ sess[s].pc = "done"
        /\ sess[s].out = "Allocated"
        /\ sess[s].range = "rB"
        /\ Cardinality(TempHolds(sess[s].user)) = SMS_DISPLAY_COUNT
        /\ \E h \in PermHolds(sess[s].user) : h.range_id = "rA"

\* a step that runs cleanup_expired_holds: the admin sweep, or the first
\* step of an allocation
SweepStep ==
    \E s \in Sessions :
        /\ sess[s].pc = "idle"
        /\ \/ sess'[s].pc = "hold"
           \/ sess'[s].out \in {"Cleaned", "InsufficientBalance",
                                "NoAvailable", "NotEnough"}

\* C8: a sweep removes no permanent hold and no hold whose first_retry_time
\* is null, whatever its hold_start_time.
C8_ExpiryScoping ==
    [][SweepStep
       => \A h \in holds \ holds' :
              ~h.is_permanent /\ h.first_retry_time # NULL]_vars

\* the admin sweep has run at minute 6 and left a never-polled temporary hold
\* and a permanent hold, both of minute 0
C8_Witness ==
    /\ now = 6
    /\ \E s \in Sessions : sess[s].pc = "done" /\ sess[s].out = "Cleaned"
    /\ \E h \in holds : /\ ~h.is_permanent
                        /\ h.first_retry_time = NULL
                        /\ h.hold_start_time = 0
    /\ \E h \in holds : /\ h.is_permanent
                        /\ h.first_retry_time = {0}
                        /\ h.hold_start_time = 0

\* C9: a sweep leaves a non-permanent hold first polled at T when it runs
\* before T + 5 minutes and removes it when it runs after T + 5 minutes.
C9_GracePeriod ==
    [][SweepStep
       => \A h \in holds :
              (~h.is_permanent /\ h.first_retry_time # NULL)
              => \A T \in h.first_retry_time :
                    /\ (now < T + GraceMinutes) => h \in holds'
                    /\ (now > T + GraceMinutes) => h \notin holds']_vars

\* the admin sweep has run at minute 6: of a batch of minute 0 the number
\* first polled at minute 4 is all that is left, the one first polled at
\* minute 0 is gone
C9_Witness ==
    /\ now = 6
    /\ \E s \in Sessions : sess[s].pc = "done" /\ sess[s].out = "Cleaned"
    /\ \E h \in holds : /\ holds = {h}
                        /\ ~h.is_permanent
                        /\ h.first_retry_time = {4}
                        /\ h.hold_start_time = 0

\* C10: an allocation answers InsufficientBalance exactly when the user's
\* balance is below the price of the range, whatever is available; the
\* inventory answers and the batch are given only to a user who can pay.
C10_PriceCheckFirst ==
    \A s \in Sessions :
        (\/ sess[s].pc = "hold"
         \/ /\ sess[s].pc = "done"
            /\ sess[s].out \in {"InsufficientBalance", "NoAvailable",
                                "NotEnough", "Allocated"})
        => ((users[sess[s].user].balance
                < get_price_for_range(price_ranges, sess[s].range))
            <=> sess[s].out = "InsufficientBalance")

\* an allocation answered InsufficientBalance for a range with fewer than
\* SMS_DISPLAY_COUNT numbers available
C10_Witness ==
    \E s \in Sessions :
        /\ sess[s].pc = "done"
        /\ sess[s].out = "InsufficientBalance"
        /\ Cardinality(get_available_numbers_for_range(holds, sess[s].range))
              < SMS_DISPLAY_COUNT

\* an allocation that has just answered that it failed, and how
AllocFailed(s, outs) == sess[s].pc = "idle" /\ sess'[s].out \in outs

\* the rows the sweep is meant to delete at the present minute
Stale(h) ==
    /\ ~h.is_permanent
    /\ \E f \in h.first_retry_time : f < now - GraceMinutes

\* C11 (as stated): an allocation that ends with InsufficientBalance leaves
\* the set of hold rows as it was, and one that ends for want of inventory
\* creates no hold and keeps the caller's previous batch.
C11_FailedAllocateTouchesNothing ==
    [][\A s \in Sessions :
        /\ AllocFailed(s, {"InsufficientBalance"}) => holds' = holds
        /\ AllocFailed(s, {"NoAvailable", "NotEnough"})
           => /\ holds' \subseteq holds
              /\ \A h \in holds : h.user = sess'[s].user => h \in holds'
      ]_vars

\* C11 (amended): a failed allocation creates no hold, and the only rows it
\* removes are those of the sweep that runs first: non-permanent holds first
\* polled more than five minutes ago.  Every other hold, the rest of the
\* caller's previous batch included, is kept.
C11_FailedAllocateOnlySweeps ==
    [][\A s \in Sessions :
        AllocFailed(s, {"InsufficientBalance", "NoAvailable", "NotEnough"})
        => /\ holds' \subseteq holds
           /\ \A h \in holds \ holds' : Stale(h)
           /\ UNCHANGED <<users, transactions, price_ranges>>
      ]_vars

\* an allocation has failed for want of inventory at minute 6 and the caller
\* still has a never-polled temporary hold of minute 0
C11_Witness ==
    \E s \in Sessions :
        /\ sess[s].pc = "done"
        /\ sess[s].out \in {"NoAvailable", "NotEnough"}
        /\ now = 6
        /\ \E h \in TempHolds(sess[s].user) :
              h.hold_start_time = 0 /\ h.first_retry_time = NULL

\* the numbers of a range that no hold row references
Unheld(H, r) ==
    {n \in PhoneNumbers : RangeOf(n) = r /\ \A h \in H : h.number # n}

\* what the commit of an allocation by session s must have done, but for
\* the count of available numbers
Allocated(s) ==
    LET u == sess[s].user
        r == sess[s].range
        new == holds' \ holds
    IN  /\ Cardinality(new) = SMS_DISPLAY_COUNT
        /\ Cardinality({h.number : h \in new}) = SMS_DISPLAY_COUNT
        /\ \A h \in new : /\ h.user = u
                          /\ h.range_id = r
                          /\ RangeOf(h.number) = r
                          /\ h.number \in Unheld(holds, r)
                          /\ ~h.is_permanent
                          /\ h.first_retry_time = NULL
                          /\ h.hold_start_time = now
        /\ users[u].balance >= get_price_for_range(price_ranges, r)
        /\ UNCHANGED <<users, transactions>>

C13_FirstConfirmationBills ==
    [][\A s \in Sessions :
        LET u == sess[s].user
            n == sess[s].number
            mine == {h \in TempHolds(u) : h.number = n}
        IN  /\ (sess[s].pc = "fetch" /\ sess'[s].pc = "debit")
               => \E h \in mine :
                     /\ users[u].balance
                           >= get_price_for_range(price_ranges, h.range_id)
                     /\ sess'[s].amount
                           = get_price_for_range(price_ranges, h.range_id)
            /\ (sess[s].pc = "debit" /\ sess'[s].pc = "promote")
               => \E h \in mine :
                    LET p == get_price_for_range(price_ranges, h.range_id)
                    IN  /\ users' = [users EXCEPT
                                        ![u].balance = @ - p,
                                        ![u].total_spent = @ + p]
                        /\ transactions' = Append(transactions,
                               [user |-> u, amount |-> 0 - p,
                                type |-> "sms_charge", number |-> n])
                        /\ UNCHANGED holds
            /\ (sess[s].pc = "promote" /\ sess'[s].pc = "done")
               => /\ \E h \in mine :
                        holds' = (holds \ {h})
                                    \cup {[h EXCEPT !.is_permanent = TRUE]}
                  /\ users' = [users EXCEPT ![u].total_sms_received = @ + 1]
                  /\ UNCHANGED transactions
                  /\ sess'[s].out = "Charged"
                  /\ \A g \in TempHolds(u) :
                        g.number # n => Charges(u, g.number) = {}
      ]_vars

\* the first confirmation of a number has charged the default price to a user
\* credited 2: balance 1, total_spent 1, one SMS received, one permanent hold,
\* and the other number of the batch temporary and unbilled
C13_Witness ==
    \E s \in Sessions :
        LET u == sess[s].user
        IN  /\ sess[s].pc = "done"
            /\ sess[s].out = "Charged"
            /\ users[u].balance = 2 - DefaultPrice
            /\ users[u].total_spent = DefaultPrice
            /\ users[u].total_sms_received = 1
            /\ {h.number : h \in PermHolds(u)} = {sess[s].number}
            /\ \E g \in TempHolds(u) : Charges(u, g.number) = {}

\* C14: no step takes a permanent hold to a temporary one.
C14_PermanentIsOneWay ==
    [][\A h \in holds, g \in holds' :
          (/\ h.is_permanent
           /\ g.user = h.user
           /\ g.number = h.number
           /\ g.hold_start_time = h.hold_start_time)
          => g.is_permanent]_vars

\* a hold made permanent at minute 0 is still permanent after the clock
\* reached minute 6 and the admin released all temporary holds
C14_Witness ==
    /\ now = 6
    /\ \E s \in Sessions : sess[s].pc = "done" /\ sess[s].out = "Released"
    /\ \E h \in holds : /\ h.is_permanent
                        /\ h.hold_start_time = 0
                        /\ h.first_retry_time = {0}

\* C15: a first_retry_time that is set never changes; a search by the holder
\* sets it to the present minute on the hold searched, and on no other,
\* before the upstream is asked, if it was null, and leaves it otherwise;
\* whatever the upstream answers, the holds stay as the search left them.
C15_FirstPollOnce ==
    [][/\ \A h \in holds, g \in holds' :
             (/\ h.first_retry_time # NULL
              /\ g.user = h.user
              /\ g.number = h.number
              /\ g.hold_start_time = h.hold_start_time)
             => g.first_retry_time = h.first_retry_time
       /\ \A s \in Sessions :
             /\ (sess[s].pc = "idle" /\ sess'[s].pc = "fetch")
                => \E h \in holds :
                      /\ h.user = sess'[s].user
                      /\ h.number = sess'[s].number
                      /\ holds' = (holds \ {h}) \cup
                            {IF h.first_retry_time = NULL
                             THEN [h EXCEPT !.first_retry_time = {now}]
                             ELSE h}
             /\ (sess[s].pc = "fetch" /\ sess'[s].pc = "done")
                => UNCHANGED holds
      ]_vars

\* a number first polled at minute 0 was searched again at minute 4, the
\* upstream failed or had nothing, and the first poll time is still 0
C15_Witness ==
    \E s \in Sessions :
        /\ sess[s].pc = "done"
        /\ sess[s].out \in {"Error", "Failed", "NoSMS"}
        /\ now = 4
        /\ \E h \in holds : /\ h.user = sess[s].user
                            /\ h.number = sess[s].number
                            /\ h.first_retry_time = {0}

\* the ledger row a step appends, if it appends one
Appended == IF Len(transactions') = Len(transactions) + 1
            THEN {transactions'[Len(transactions')]} ELSE {}

\* C16: no balance is ever negative, and no debit, sms_charge or
\* admin_deduct, is ever written for more than the balance the user has when
\* it is written: such a debit is refused.
C16_NonNegativeBalance ==
    [][/\ \A u \in Users : users[u].balance >= 0 /\ users'[u].balance >= 0
       /\ \A tx \in Appended :
             tx.amount < 0 => 0 - tx.amount <= users[tx.user].balance
      ]_vars

\* the admin asked to take 2 from a user who has 1 left after a charge, and
\* was refused
C16_Witness ==
    /\ \E s \in Sessions : /\ sess[s].pc = "done"
                           /\ sess[s].user = Admin
                           /\ sess[s].out = "InsufficientFunds"
    /\ users[Caller].balance = 1
    /\ users[Caller].total_spent = 1

\* C17: a debit that goes through has balance >= amount, takes amount from
\* the balance, adds it to total_spent and appends exactly one row of
\* -amount; a debit answered "insufficient funds" had balance < amount (for
\* a charge, the price of the range) and changes neither users nor ledger.
C17_DebitSemantics ==
    [][\A s \in Sessions :
          /\ (\/ sess[s].pc = "debit" /\ sess'[s].pc = "promote"
              \/ sess[s].pc = "deduct" /\ sess'[s].pc = "done")
             => LET u == IF sess[s].pc = "debit"
                         THEN sess[s].user ELSE sess[s].target
                    a == sess[s].amount
                IN  /\ users[u].balance >= a
                    /\ users' = [users EXCEPT ![u].balance = @ - a,
                                              ![u].total_spent = @ + a]
                    /\ Len(transactions') = Len(transactions) + 1
                    /\ SubSeq(transactions', 1, Len(transactions))
                          = transactions
                    /\ transactions'[Len(transactions')].user = u
                    /\ transactions'[Len(transactions')].amount = 0 - a
          /\ (sess[s].pc \in {"idle", "fetch"}
                /\ sess'[s].pc = "done"
                /\ sess'[s].out = "InsufficientFunds")
             => /\ UNCHANGED <<users, transactions>>
                /\ sess[s].pc = "fetch"
                   => users[sess'[s].user].balance
                        < get_price_for_range(price_ranges, sess'[s].range)
      ]_vars

\* the admin took the 2 the user had: one admin_deduct row of -2
C17_Witness ==
    /\ \E s \in Sessions : sess[s].pc = "done" /\ sess[s].out = "Deducted"
    /\ Len(transactions) = 2
    /\ transactions[2].type = "admin_deduct"
    /\ transactions[2].amount = 0 - 2
    /\ users[Caller].balance = 0
    /\ users[Caller].total_spent = 2

\* C18: a credit is only ever executed with an amount > 0; it adds exactly
\* the amount to the balance of the user credited, changes nothing else of
\* any user and appends exactly one admin_add row of +amount; an amount
\* answered "must be positive" changes neither users nor ledger.
C18_CreditSemantics ==
    [][\A s \in Sessions :
          /\ (sess[s].pc = "credit" /\ sess'[s].pc = "done")
             => LET u == sess[s].target
                    a == sess[s].amount
                IN  /\ a > 0
                    /\ users' = [users EXCEPT ![u].balance = @ + a]
                    /\ transactions' = Append(transactions,
                          [user |-> u, amount |-> a,
                           type |-> "admin_add", number |-> 0])
          /\ (sess[s].pc = "idle" /\ sess'[s].out = "MustBePositive")
             => UNCHANGED <<users, transactions, price_ranges>>
      ]_vars

\* a second credit of 2 went through: balance 4, two admin_add rows
C18_Witness ==
    /\ \E s \in Sessions : sess[s].pc = "done" /\ sess[s].out = "Added"
    /\ users[Caller].balance = 4
    /\ Len(transactions) = 2
    /\ transactions[2] = [user |-> Caller, amount |-> 2,
                          type |-> "admin_add", number |-> 0]

\* C19: with two store sessions in flight, every credit or debit that
\* commits moves the balance of its user from what the store holds at that
\* moment by exactly the signed amount of the ledger row it appends, so that
\* after any interleaving the balance is the initial balance plus the sum of
\* the amounts of the calls that went through.
C19_NoLostUpdate ==
    [][\A tx \in Appended :
          users'[tx.user].balance = users[tx.user].balance + tx.amount]_vars

\* C20: no step lowers a total_spent, and before and after every step each
\* user's total_spent is the sum of the magnitudes of the user's
\* negative-amount ledger rows.
C20_TotalSpentMirrorsDebits ==
    [][\A u \in Users :
          /\ users'[u].total_spent >= users[u].total_spent
          /\ users[u].total_spent = Spent(TxOf(u))
          /\ users'[u].total_spent
               = Spent(SelectSeq(transactions', LAMBDA tx : tx.user = u))
      ]_vars

\* credited twice, then 2 taken by the admin: three rows, 2 spent, 2 left
C20_Witness ==
    /\ Len(transactions) = 3
    /\ users[Caller].total_spent = 2
    /\ users[Caller].balance = 2
    /\ transactions[3].type = "admin_deduct"

\* the promotion state of the store: which hold of which user on which
\* number is permanent
Permanence(H) ==
    {<<h.user, h.number, h.hold_start_time, h.is_permanent>> : h \in H}

\* C21: a search whose upstream call raises, returns no data or returns no
\* messages ends there, and neither its first-poll step nor the step that
\* receives the answer changes any user's balance, total_spent or
\* total_sms_received, the ledger, or the is_permanent of any hold.
C21_UpstreamFailureBillsNothing ==
    [][\A s \in Sessions :
          /\ (sess[s].pc = "idle" /\ sess'[s].pc = "fetch")
             => /\ UNCHANGED <<users, transactions>>
                /\ Permanence(holds') = Permanence(holds)
          /\ (/\ sess[s].pc = "fetch"
              /\ sess'[s].pc # "fetch"
              /\ sess'[s].data \in {"raise", "none", "empty"})
             => /\ sess'[s].pc = "done"
                /\ sess'[s].out \in {"Error", "Failed", "NoSMS"}
                /\ UNCHANGED <<users, transactions>>
                /\ Permanence(holds') = Permanence(holds)
      ]_vars

\* the upstream raised on the poll of a temporary hold of a user with
\* money: the balance and the hold are as they were
C21_Witness ==
    \E s \in Sessions :
        /\ sess[s].pc = "done"
        /\ sess[s].data = "raise"
        /\ sess[s].user = Caller
        /\ users[Caller].balance = 2
        /\ transactions # <<>>
        /\ \E h \in TempHolds(Caller) : h.number = sess[s].number

\* v is what a resolve of range r must return from price table P
ResolvesTo(P, r, v) ==
    IF PriceRows(P, r) = {} THEN v = DefaultPrice
    ELSE {x.price : x \in PriceRows(P, r)} = {v}

\* C22: the price table never has two rows for one range; setting the price
\* of r to p leaves r with the one row of price p and the rows of the other
\* ranges as they were; nothing but a price setting changes the table, a
\* resolve included; and the price an allocation resolves for r is the price
\* of r's row if there is one and the default price otherwise.
C22_PricingResolver ==
    [][/\ \A r \in RangeIds : Cardinality(PriceRows(price_ranges', r)) <= 1
       /\ price_ranges' # price_ranges
          => \E s \in Sessions :
                sess[s].pc = "idle" /\ sess'[s].out = "PriceSet"
       /\ \A s \in Sessions :
             /\ (sess[s].pc = "idle" /\ sess'[s].out = "PriceSet")
                => /\ PriceRows(price_ranges', sess'[s].range)
                        = {[range_unique_id |-> sess'[s].range,
                            price |-> sess'[s].amount]}
                   /\ \A q \in RangeIds \ {sess'[s].range} :
                         PriceRows(price_ranges', q) = PriceRows(price_ranges, q)
             /\ (sess[s].pc = "idle" /\ sess'[s].pc = "hold")
                => /\ ResolvesTo(price_ranges, sess'[s].range, sess'[s].amount)
                   /\ users[sess'[s].user].balance >= sess'[s].amount
             /\ (sess[s].pc = "idle" /\ sess'[s].out = "InsufficientBalance")
                => \E v \in 1 .. Max(Prices) :
                      /\ ResolvesTo(price_ranges, sess'[s].range, v)
                      /\ users[sess'[s].user].balance < v
      ]_vars

\* the price of rA was set to 3 after the caller, who has 2, was allocated
\* numbers of rA at the lower price resolved then
C22_Witness ==
    /\ price_ranges = {[range_unique_id |-> "rA", price |-> 3]}
    /\ users[Caller].balance = 2
    /\ \E h \in holds : h.user = Caller /\ RangeOf(h.number) = "rA"

\* C23: the numbers an allocation selects are referenced by no hold of the
\* store it read, temporary or permanent, of any user; and at the commit of
\* the allocation none of the numbers it returns has a permanent hold or a
\* hold of another user.
C23_HoldsConsumeInventory ==
    [][\A s \in Sessions :
          /\ (sess[s].pc = "idle" /\ sess'[s].pc = "hold")
             => sess'[s].sel \cap {h.number : h \in holds'} = {}
          /\ (sess[s].pc = "hold" /\ sess'[s].out = "Allocated")
             => \A h \in holds :
                   h.number \in sess'[s].sel
                   => h.user = sess'[s].user /\ ~h.is_permanent
      ]_vars

\* u2 was allocated numbers of the range in which u1 has a permanent hold
C23_Witness ==
    /\ \E s \in Sessions : /\ sess[s].pc = "done"
                           /\ sess[s].out = "Allocated"
                           /\ sess[s].user = "u2"
    /\ PermHolds("u1") # {}
    /\ Cardinality(TempHolds("u2")) = SMS_DISPLAY_COUNT

\* C24: a sweep, the admin's release of all temporary holds and the commit
\* of a re-allocation each leave every permanent hold in the store, the same
\* row with the same owner and number.
C24_PermanentNeverReleased ==
    [][(\/ SweepStep
        \/ \E s \in Sessions :
              /\ sess[s].pc \in {"idle", "hold"}
              /\ sess'[s].out \in {"Released", "Allocated"})
       => \A h \in holds : h.is_permanent => h \in holds'
      ]_vars

\* at minute 6 the owner of a permanent hold was allocated a new batch: the
\* sweep and the re-allocation have both passed over the permanent hold
C24_Witness ==
    /\ now = 6
    /\ \E s \in Sessions : /\ sess[s].pc = "done"
                           /\ sess[s].out = "Allocated"
                           /\ sess[s].user = Caller
    /\ \E h \in PermHolds(Caller) : h.hold_start_time = 0
    /\ \A h \in TempHolds(Caller) : h.hold_start_time = 6

\* C25: the admin's release leaves no temporary hold of any user, whatever
\* its first poll time, leaves the permanent holds as they were, and every
\* number a released hold referenced is in the available list of its range
\* again.
C25_ReleaseAllIgnoresGrace ==
    [][\A s \in Sessions :
          (sess[s].pc = "idle" /\ sess'[s].out = "Released")
          => /\ \A h \in holds' : h.is_permanent
             /\ \A h \in holds :
                   IF h.is_permanent THEN h \in holds'
                   ELSE h.number \in
                          get_available_numbers_for_range(holds', h.range_id)
      ]_vars

\* within the minute of the allocation the release took the temporary hold
\* u1 had next to the permanent one: nothing temporary is left
C25_Witness ==
    /\ now = 0
    /\ \E s \in Sessions : sess[s].pc = "done" /\ sess[s].out = "Released"
    /\ PermHolds("u1") # {}
    /\ \A u \in Users : TempHolds(u) = {}
    /\ get_available_numbers_for_range(holds, SharedRange) # {}

\* C26: the value the admin cleanup gets back from cleanup_expired_holds,
\* and shows, is the number of hold rows that call deleted.
C26_SweepReturnsCount ==
    [][\A s \in Sessions :
          (sess[s].pc = "idle" /\ sess'[s].out = "Cleaned")
          => sess'[s].cleaned = {Cardinality(holds) - Cardinality(holds')}
      ]_vars

\* the numbers of range r that no hold of H references: the whole available
\* set of the range
WholeAvailable(H, r) ==
    {x.number : x \in {y \in NumbersOfRange(r) :
                          \A h \in H : h.number # y.number}}

\* C27: whenever the caller can be allocated numbers of a range, every
\* batch-size subset of the whole available set of the range is a batch the
\* allocation can select; and a batch selected has batch-size distinct
\* numbers.
C27_SelectionFromWholeSet ==
    /\ \A s \in Sessions :
          sess[s].pc = "hold" => Cardinality(sess[s].sel) = SMS_DISPLAY_COUNT
    /\ \A r \in AllRangeIds :
          LET whole == WholeAvailable(cleanup_expired_holds(holds, now), r)
          IN  (/\ sess[Worker].pc = "idle"
               /\ users[Caller].balance
                    >= get_price_for_range(price_ranges, r)
               /\ Cardinality(whole) >= SMS_DISPLAY_COUNT)
              => \A S \in SUBSET whole :
                    Cardinality(S) = SMS_DISPLAY_COUNT
                    => ENABLED (/\ view_sms_numbers_check(Worker, Caller, r)
                                /\ sess'[Worker].pc = "hold"
                                /\ sess'[Worker].sel = S)

\* C28: after an import, importing the same file once more would leave the
\* ranges and phone_numbers tables exactly as they are; no two Range rows
\* share a unique_id or a name, no two PhoneNumber rows share a number, and
\* every range name of the file has its one Range row, the one with the
\* unique_id generated from the name.
C28_ImportIdempotent ==
    [][\A s \in Sessions :
          (sess[s].pc = "idle" /\ sess'[s].out = "Imported")
          => LET again == import_csv_data(ranges', phone_numbers',
                                          sess'[s].file, 0, 0)
             IN  /\ again.ranges = ranges'
                 /\ again.phone_numbers = phone_numbers'
                 /\ \A x \in ranges', y \in ranges' :
                       (x.unique_id = y.unique_id \/ x.name = y.name) => x = y
                 /\ \A x \in phone_numbers', y \in phone_numbers' :
                       x.number = y.number => x = y
                 /\ \A i \in 1 .. Len(sess'[s].file) :
                       LET nm == sess'[s].file[i][1]
                       IN  nm # ""
                           => [unique_id |-> generate_range_unique_id(nm),
                               name |-> nm] \in ranges'
      ]_vars

\* the file with the row (Gamma, 6) was imported when range Gamma already
\* had number 6 from an earlier import: nothing was added
C28_Witness ==
    /\ \E s \in Sessions : /\ sess[s].pc = "done"
                           /\ sess[s].out = "Imported"
                           /\ sess[s].file = <<<<"Gamma", 6>>>>
                           /\ sess[s].success_count = 0
    /\ \E x \in phone_numbers : x.number = 6 /\ x.range_id = "rC"
    /\ Cardinality(phone_numbers) = 6
    /\ Cardinality(ranges) = 3

\* the rows of a file that name a number table N has under another range
Conflicts(N, file) ==
    {i \in 1 .. Len(file) :
        /\ file[i][1] # ""
        /\ \E x \in N : /\ x.number = file[i][2]
                        /\ x.range_id # generate_range_unique_id(file[i][1])}

\* C29: an import leaves every phone number that existed before it under
\* the range it had, and reports as an error every row that names such a
\* number under another range.
C29_ImportRejectsConflict ==
    [][\A s \in Sessions :
          (sess[s].pc = "idle" /\ sess'[s].out = "Imported")
          => /\ \A x \in phone_numbers : x \in phone_numbers'
             /\ sess'[s].error_count
                  >= Cardinality(Conflicts(phone_numbers, sess'[s].file))
      ]_vars

\* C30: before and after every step each hold references a phone number
\* that exists; and a range deletion that goes through leaves no hold on any
\* number the phone_numbers table had under that range.
C30_NoOrphanedHolds ==
    [][/\ \A h \in holds : \E x \in phone_numbers : x.number = h.number
       /\ \A h \in holds' : \E x \in phone_numbers' : x.number = h.number
       /\ \A s \in Sessions :
             (sess[s].pc = "idle" /\ sess'[s].out = "RangeDeleted")
             => /\ \A x \in phone_numbers' : x.range_id # sess'[s].range
                /\ \A x \in phone_numbers :
                      x.range_id = sess'[s].range
                      => \A g \in holds' : g.number # x.number
      ]_vars

\* a range was deleted while the caller held a batch of which one number
\* was under that range: one hold of the two is left
C30_Witness ==
    /\ \E s \in Sessions : sess[s].pc = "done" /\ sess[s].out = "RangeDeleted"
    /\ Cardinality(TempHolds(Caller)) = 1

\* C31: the upstream session re-authenticates: whenever the scraper session
\* is marked authenticated and the upstream session has expired, a later
\* fetch logs in again (the count of logins grows).
C31_Reauthenticates ==
    \A k \in 0 .. (MaxLogins - 1) :
        (scrapper.authenticated /\ scrapper.upstream = "expired"
            /\ scrapper.logins = k) ~> (scrapper.logins > k)

\* the numbers of range r that the holds H leave free once every hold that
\* has expired by now is taken away
FreeAfterExpiry(H, r) ==
    {n \in PhoneNumbers :
        /\ RangeOf(n) = r
        /\ \A h \in H : h.number = n => Stale(h)}

\* C32: the sweep runs first in every allocation, whoever the caller is: no
\* expired hold is left when the available numbers are counted, so a number
\* whose only holds are expired temporary ones counts as available, and the
\* allocation goes ahead whenever the caller can pay and these numbers make
\* up a batch, choosing among them.
C32_SweepBeforeAllocation ==
    [][\A s \in Sessions :
        (/\ sess[s].pc = "idle"
         /\ \/ sess'[s].pc = "hold"
            \/ sess'[s].out \in {"InsufficientBalance", "NoAvailable",
                                 "NotEnough"})
        => LET free == FreeAfterExpiry(holds, sess'[s].range)
           IN  /\ \A h \in holds' : ~Stale(h)
               /\ sess'[s].out = "NoAvailable" => free = {}
               /\ sess'[s].out = "NotEnough"
                     => Cardinality(free) < SMS_DISPLAY_COUNT
               /\ sess'[s].pc = "hold" => sess'[s].sel \subseteq free
      ]_vars

\* at minute 6 the second user has been given a batch of the shared range
\* while the first user, whose batch of minute 0 was of the same range,
\* keeps only its never-polled hold: the polled one has expired, was swept
\* by this allocation, and its number is in the new batch (the range has
\* but three numbers)
C32_Witness ==
    \E s \in Sessions :
        /\ sess[s].pc = "hold"
        /\ sess[s].user = "u2"
        /\ sess[s].range = SharedRange
        /\ now = 6
        /\ Cardinality(holds) = 1
        /\ \E h \in holds : /\ h.user = "u1"
                            /\ h.hold_start_time = 0
                            /\ h.first_retry_time = NULL
                            /\ h.number \notin sess[s].sel

\* a confirmation in session s has committed its debit
Debited(s) ==
    \/ sess[s].pc = "promote"
    \/ sess[s].pc = "done" /\ sess[s].out = "Charged"

\* C33: billing is exactly-once under concurrency: of two confirmations of
\* the same user's hold on the same number that run in separate sessions and
\* both find an SMS, at most one inserts an sms_charge row and debits the
\* balance.
C33_ExactlyOnceUnderConcurrency ==
    \A s, t \in Sessions :
        (/\ s # t
         /\ sess[s].user = sess[t].user
         /\ sess[s].number = sess[t].number
         /\ sess[s].hid = sess[t].hid
         /\ Debited(s))
        => /\ ~Debited(t)
           /\ Cardinality(Charges(sess[s].user, sess[s].number)) <= 1

\* the sms_charge rows of user u
ChargesOf(u) ==
    {i \in 1 .. Len(transactions) :
        transactions[i].type = "sms_charge" /\ transactions[i].user = u}

\* C34: billing and permanent holds are in one-to-one correspondence: when
\* no handler is between two commits, every user's total_sms_received is the
\* number of the user's sms_charge rows and the number of the user's
\* permanent holds, range deletions and re-imports included.
C34_BillingMatchesPermanentHolds ==
    (\A s \in Sessions : sess[s].pc \in {"idle", "done"})
    => \A u \in Users :
          /\ users[u].total_sms_received = Cardinality(ChargesOf(u))
          /\ users[u].total_sms_received = Cardinality(PermHolds(u))

\* session s has just run the checks of an allocation
AllocChecked(s) ==
    /\ sess[s].pc = "idle"
    /\ \/ sess'[s].pc = "hold"
       \/ sess'[s].out \in {"InsufficientBalance", "NoAvailable", "NotEnough"}

\* the holds of user u that have not expired by now
Unexpired(u) == {h \in holds : h.user = u /\ ~Stale(h)}

\* C35 (as stated): the batch chosen by an allocation holds no number that
\* the caller held, unexpired, just before the call; and when fewer than a
\* batch of numbers of the range are free of unexpired holds, the call
\* answers that the inventory is insufficient and the caller keeps every
\* hold of the old batch.
C35_NoOverlapKeepsBatch ==
    [][\A s \in Sessions :
        AllocChecked(s)
        => LET u == sess'[s].user
               free == FreeAfterExpiry(holds, sess'[s].range)
           IN  /\ sess'[s].pc = "hold"
                  => \A h \in Unexpired(u) : h.number \notin sess'[s].sel
               /\ Cardinality(free) < SMS_DISPLAY_COUNT
                  => /\ sess'[s].out \in {"NoAvailable", "NotEnough"}
                     /\ \A h \in holds : h.user = u => h \in holds'
      ]_vars

\* C35 (amended): the batch chosen by an allocation holds no number that the
\* caller held, unexpired, just before the call; and when fewer than a batch
\* of numbers of the range are free of unexpired holds, the call allocates
\* nothing, answers that the inventory is insufficient if the caller can pay
\* the price, and the caller keeps every unexpired hold of the old batch
\* (the expired ones are swept).
C35_NoOverlapKeepsUnexpired ==
    [][\A s \in Sessions :
        AllocChecked(s)
        => LET u == sess'[s].user
               r == sess'[s].range
               free == FreeAfterExpiry(holds, r)
           IN  /\ sess'[s].pc = "hold"
                  => \A h \in Unexpired(u) : h.number \notin sess'[s].sel
               /\ Cardinality(free) < SMS_DISPLAY_COUNT
                  => /\ sess'[s].pc # "hold"
                     /\ users[u].balance >= get_price_for_range(price_ranges, r)
                        => sess'[s].out \in {"NoAvailable", "NotEnough"}
                     /\ \A h \in Unexpired(u) : h \in holds'
                     /\ \A h \in holds \ holds' : Stale(h)
      ]_vars

\* at minute 6 the checks of a second allocation in the same range have
\* passed although the caller still has a temporary hold of minute 0 there
\* (the other hold of that batch had expired and was swept): the number
\* still held is not in the batch chosen
C35_Witness ==
    /\ sess[Worker].pc = "hold"
    /\ sess[Worker].user = Caller
    /\ now = 6
    /\ \E h \in holds : /\ h.user = Caller
                        /\ h.range_id = sess[Worker].range
                        /\ ~h.is_permanent
                        /\ h.hold_start_time = 0
                        /\ h.number \notin sess[Worker].sel

\* session s takes a step of a search: its first step, or a later one
SearchBegins(s) ==
    /\ sess[s].pc = "idle"
    /\ sess'[s].pc = "fetch" \/ sess'[s].out = "NotHeld"

SearchStep(s) == SearchBegins(s) \/ sess[s].pc \in {"fetch", "debit", "promote"}

\* the rows of H, by user, number and start time
Rows(H) == {<<h.user, h.number, h.hold_start_time>> : h \in H}

\* C36: expiry is lazy.  No step of a search deletes a hold; a search finds
\* the caller's hold whether or not its grace period has elapsed and, when
\* an SMS is returned for a temporary hold and the balance covers the price,
\* goes on to the debit, which appends the sms_charge, and to the promotion,
\* which leaves the hold permanent.  A sweep deletes every temporary hold
\* whose grace period has elapsed and no permanent one.
C36_LazyExpiry ==
    [][/\ \A s \in Sessions :
            SearchStep(s)
            => LET u == sess'[s].user
                   n == sess'[s].number
                   mine == {h \in holds : h.user = u /\ h.number = n}
               IN  /\ Rows(holds') = Rows(holds)
                   /\ (SearchBegins(s) /\ mine # {}) => sess'[s].pc = "fetch"
                   /\ (/\ sess[s].pc = "fetch"
                       /\ sess'[s].data = "found"
                       /\ \E h \in mine :
                             /\ ~h.is_permanent
                             /\ h.hold_start_time = sess[s].hid
                             /\ users[u].balance >=
                                  get_price_for_range(price_ranges, h.range_id))
                      => sess'[s].pc = "debit"
                   /\ sess[s].pc = "debit"
                      => \E tx \in Appended : /\ tx.type = "sms_charge"
                                              /\ tx.user = u
                                              /\ tx.number = n
                   /\ sess[s].pc = "promote"
                      => \A h \in holds' :
                            (h.user = u /\ h.number = n) => h.is_permanent
       /\ SweepStep
          => \A h \in holds : /\ Stale(h) => h \notin holds'
                              /\ h.is_permanent => h \in holds'
      ]_vars

\* at minute 6 a confirmation has debited the caller for a number whose hold,
\* first polled at minute 0, is still temporary: its grace period ended at
\* minute 5 and no sweep has run since
C36_Witness ==
    /\ sess[Worker].pc = "promote"
    /\ now = 6
    /\ \E h \in TempHolds(sess[Worker].user) :
          /\ h.number = sess[Worker].number
          /\ h.first_retry_time = {0}
    /\ Charges(sess[Worker].user, sess[Worker].number) # {}

\* C37: the charge is the price at confirmation time.  A confirmation that
\* has found an SMS for a temporary hold goes on to the debit exactly when
\* the balance covers the price that the price table gives for the hold's
\* range at that moment, and answers InsufficientFunds otherwise; the
\* sms_charge its debit appends is for that price.
C37_ChargeAtConfirmationPrice ==
    [][\A s \in Sessions, v \in {DefaultPrice} \cup {x.price : x \in price_ranges} :
        LET u == sess[s].user
            n == sess[s].number
            mine == {h \in holds : /\ h.user = u
                                   /\ h.number = n
                                   /\ h.hold_start_time = sess[s].hid}
        IN  /\ (/\ sess[s].pc = "fetch"
                /\ sess'[s].data = "found"
                /\ \E h \in mine :
                      ~h.is_permanent /\ ResolvesTo(price_ranges, h.range_id, v))
               => IF users[u].balance < v
                  THEN sess'[s].out = "InsufficientFunds"
                  ELSE sess'[s].pc = "debit" /\ sess'[s].amount = v
            /\ (/\ sess[s].pc = "debit"
                /\ \E h \in mine : ResolvesTo(price_ranges, h.range_id, v))
               => /\ \E tx \in Appended : tx.type = "sms_charge"
                                          /\ tx.amount = 0 - v
                  /\ users'[u].balance = users[u].balance - v
      ]_vars

\* a confirmation has answered InsufficientFunds for a number whose range
\* now costs 2, although another number of the same batch was charged 1: the
\* price was raised after the allocation, whose balance check the caller
\* had passed
C37_Witness ==
    /\ sess[Worker].pc = "done"
    /\ sess[Worker].out = "InsufficientFunds"
    /\ sess[Worker].user = Caller
    /\ \E h \in TempHolds(Caller), g \in PermHolds(Caller) :
          /\ h.number = sess[Worker].number
          /\ g.range_id = h.range_id
          /\ g.hold_start_time = h.hold_start_time
          /\ ResolvesTo(price_ranges, h.range_id, 2)
          /\ \E i \in Charges(Caller, g.number) : transactions[i].amount = -1

\* C38: only the holder is billed.  A search for a number on which the
\* caller has no hold answers 'not held' without an upstream call and
\* changes nothing in the store; every sms_charge is appended for a number
\* that its user holds at that moment; and no step of a search changes or
\* deletes a hold of another user.
C38_OnlyHolderBilled ==
    [][/\ \A s \in Sessions :
            SearchStep(s)
            => LET u == sess'[s].user
                   n == sess'[s].number
               IN  /\ (/\ SearchBegins(s)
                       /\ \A h \in holds : ~(h.user = u /\ h.number = n))
                      => /\ sess'[s].pc = "done"
                         /\ sess'[s].out = "NotHeld"
                         /\ sess'[s].data = "-"
                         /\ UNCHANGED <<users, transactions, holds,
                                        price_ranges>>
                   /\ {h \in holds' : h.user # u} = {h \in holds : h.user # u}
       /\ \A tx \in Appended :
             tx.type = "sms_charge"
             => \E h \in holds : h.user = tx.user /\ h.number = tx.number
      ]_vars

\* the second user has asked for the SMS of a number that the first user
\* holds and was told that it does not hold it: no upstream answer was
\* fetched, the hold is still temporary and never polled, and nobody has
\* been charged for the number
C38_Witness ==
    /\ sess[Worker].pc = "done"
    /\ sess[Worker].out = "NotHeld"
    /\ sess[Worker].user = "u2"
    /\ sess[Worker].data = "-"
    /\ \E h \in TempHolds("u1") : /\ h.number = sess[Worker].number
                                  /\ h.first_retry_time = NULL
    /\ users["u2"].balance > 0
    /\ \A u \in Users : Charges(u, sess[Worker].number) = {}

\* C39: cancelling a balance prompt disarms it: while the panel shows the
\* Manage Balance menu, to which Cancel leads, a number the admin types is
\* not taken as an amount: no credit or debit of any user starts.
C39_CancelDisarms ==
    [][(panel = "ManageBalance" /\ sess[Worker].pc = "idle")
          => sess'[Worker].pc \notin {"credit", "deduct"}]_vars

====
